---------------------------- MODULE Spec2Model ----------------------------
(***************************************************************************)
(* libbitcoin-node: the header sync session                                *)
(* (src/src/sessions/session_header_sync.cpp) and the console executor's   *)
(* stop coordination (src/console/executor.cpp).                           *)
(*                                                                         *)
(* Specifications:                                                         *)
(*   Spec       the session, from construction over every storage and      *)
(*              checkpoint configuration, with a short retry loop;         *)
(*   RetrySpec  the session over one storage that needs a download, with  *)
(*              a long retry loop (the rate back-off runs to its end);     *)
(*   RangeSpec  get_range applied to every storage/checkpoint pair of a    *)
(*              larger family;                                             *)
(*   ExecSpec   the executor: run(), the node's callbacks, OS signals and  *)
(*              the set-once stop promise.                                 *)
(***************************************************************************)
EXTENDS Integers, Sequences, FiniteSets

\* ------------------------------------------------------------------ bounds

\* Highest block height a storage of RangeSpec holds.
MaxHeight == 3
\* Longest checkpoint list of RangeSpec.
MaxCheckpoints == 2
\* Highest block height a storage of Spec holds.
SessionMaxHeight == 2
\* Longest checkpoint list of Spec.
SessionMaxCheckpoints == 1
\* Connect failures explored by Spec.
MaxConnectFailures == 2
\* handle_complete failures explored by Spec.
MaxFailures == 2
\* Connect failures explored by RetrySpec.
RetryConnectFailures == 3
\* handle_complete failures explored by RetrySpec.
RetryFailures == 32
\* Signal deliveries explored by ExecSpec.
MaxSignals == 2

\* --------------------------------------------------------------- constants

\* static constexpr uint32_t headers_per_second = 10000;
headers_per_second == 10000

\* static constexpr float back_off_factor = 0.75f, as the fraction 3/4.
back_off_numerator == 3
back_off_denominator == 4

\* static constexpr int initialize_stop = 0;
initialize_stop == 0

\* ------------------------------------------------------------------- codes

success == "success"
operation_failed == "operation_failed"
not_found == "not_found"

\* Failure codes the network layer reports for a connect, a channel start or
\* a header download; the session only tests them for being an error.
NetworkErrors == {"channel_timeout", "channel_stopped"}

\* Codes session::start (network library) completes with.
StartCodes == {success, operation_failed}

\* ------------------------------------------------------------- checkpoints

\* A block hash: the chain it belongs to and its height on that chain.  The
\* storage holds blocks of the "main" chain; a checkpoint may name a block of
\* the main chain or of another one ("fork").
null_hash == <<"null", 0>>

\* header::hash() of the stored header at a height.
HeaderHash(height) == <<"main", height>>

\* config::checkpoint{ hash, height }.
Checkpoint(hash, height) == [hash |-> hash, height |-> height]

\* A default constructed checkpoint.
DefaultCheckpoint == Checkpoint(null_hash, 0)

\* The checkpoints a configuration can name up to a height.
Checkpoints(h) ==
    { Checkpoint(<<c, n>>, n) : c \in {"main", "fork"}, n \in 0..(h + 1) }

\* checkpoint::sort's results: lists in increasing height order.
CheckpointLists(h, n) ==
    UNION { { l \in [1..k -> Checkpoints(h)] :
                \A i \in 1..(k - 1) : l[i].height < l[i + 1].height } :
            k \in 0..n }

\* checkpoint::list::back()
back(list) == list[Len(list)]

\* ----------------------------------------------------------------- storage

\* What a fast_chain answers: get_last_height (last_ok, top), get_gap_range
\* (gap: <<>> for none, else <<first_gap, last_gap>>), get_header (the heights
\* in headers).  A gap lies below the top and above genesis; a storage that
\* cannot tell its last height reports no top.
Gaps(h) == { <<>> } \cup { <<f, l>> : f \in 1..h, l \in 1..h }

Chains(h) ==
    { c \in [last_ok : BOOLEAN, top : 0..h, gap : Gaps(h),
             headers : SUBSET (0..h)] :
        /\ c.gap # <<>> => (c.gap[1] <= c.gap[2] /\ c.gap[2] < c.top)
        /\ ~c.last_ok => c.top = 0 }

\* last_height left at the chain's top when a gap is reported.
last_height_top(chain) == chain.top

\* The working bounds of get_range (lines 243-256).
last_height(chain) ==
    IF chain.gap # <<>> THEN chain.gap[2] + 1 ELSE chain.top

\* first_height left at the chain's top when a gap is reported.
first_height_top(chain) == chain.top

first_height(chain) ==
    IF chain.gap # <<>> THEN chain.gap[1] - 1 ELSE chain.top

\* The checkpoint test of line 263 with >= for >.
checkpoint_at_or_above(checkpoints, height) ==
    checkpoints # <<>> /\ back(checkpoints).height >= height

\* The checkpoint branch of get_range (line 263).
checkpoint_above(checkpoints, height) ==
    checkpoints # <<>> /\ back(checkpoints).height > height

\* session_header_sync::get_range: the code and the two out parameters,
\* which keep their values on an error return.
get_range(chain, checkpoints, out_seed, out_stop) ==
    LET first == first_height(chain)
        last == last_height(chain)
        fail(code) == [ec |-> code, seed |-> out_seed, stop |-> out_stop]
        seed == Checkpoint(HeaderHash(first), first)
    IN  IF ~chain.last_ok THEN fail(operation_failed)
        ELSE IF first \notin chain.headers THEN fail(not_found)
        ELSE IF checkpoint_above(checkpoints, last)
            THEN [ec |-> success, seed |-> seed, stop |-> back(checkpoints)]
        ELSE IF first = last
            THEN [ec |-> success, seed |-> seed,
                  stop |-> Checkpoint(HeaderHash(first), first)]
        ELSE IF last \notin chain.headers THEN fail(not_found)
        ELSE [ec |-> success, seed |-> seed,
              stop |-> Checkpoint(HeaderHash(last), last)]

\* The product rounded to the nearest integer instead of truncated.
back_off_rounded(rate) ==
    (2 * rate * back_off_numerator + back_off_denominator)
        \div (2 * back_off_denominator)

\* The factor applied the wrong way round: the rate is divided by 0.75.
back_off_inverse(rate) == (rate * back_off_denominator) \div back_off_numerator

\* A back-off that never goes below one header per second.
back_off_floor(rate) ==
    IF (rate * back_off_numerator) \div back_off_denominator = 0
        THEN 1
        ELSE (rate * back_off_numerator) \div back_off_denominator

\* static_cast<uint32_t>(minimum_rate_ * back_off_factor), line 185.  The
\* rate never exceeds headers_per_second < 2^24, so its conversion to float
\* is exact, and so is the float product by 0.75f (3 * rate / 4 fits 24
\* bits); the cast truncates toward zero.
back_off(rate) == (rate * back_off_numerator) \div back_off_denominator

\* ----------------------------------------------------------------- session

VARIABLES
    chain_,             \* the storage behind fast_chain& chain_
    checkpoints_,       \* the sorted checkpoint list
    hashes_,            \* the header queue: the checkpoints it was seeded with
    minimum_rate_,      \* the rate floor handed to the download protocol
    last_,              \* the stop checkpoint
    stopped_,           \* session::stopped()
    phase,              \* "constructed", "starting" (handle_started is
                        \* dispatched), "started" (handle_started has run)
    start_ec,           \* the code session::start completed with
    range_ec,           \* initialize's ec: get_range's code, "none" before
    seed,               \* initialize's local seed
    connecting,         \* connects whose handle_connect is outstanding
    registered,         \* channels whose handle_channel_start is outstanding
    syncing,            \* download protocols whose completion is outstanding
    protocol,           \* the rate floor and stop checkpoint handed to the
                        \* latest protocol_header_sync, <<>> before the first
    attached,           \* protocol_header_sync instances attached
    suspended,          \* new_connection found the session stopped
    handled,            \* the codes passed to the caller's handler, in order
    connectors,         \* create_connector calls
    connects,           \* connect calls
    connect_failures,   \* handle_connect calls with an error
    failures            \* handle_complete calls with an error

config_vars == <<chain_, checkpoints_>>
session_vars ==
    <<hashes_, minimum_rate_, last_, stopped_, phase, start_ec, range_ec,
      seed, connecting, registered, syncing, protocol, attached, suspended,
      handled, connectors, connects, connect_failures, failures>>

\* ---------------------------------------------------------------- executor

VARIABLES
    exec_pc,            \* the main thread: "new", "constructed", "waiting"
                        \* (in run, on the stop future), "closing", "returned"
    armed,              \* handle_stop is installed for SIGINT/SIGTERM/SIGABRT
    node_pc,            \* the node: "none", "starting" (handle_started is
                        \* due), "seeded" (handle_running is due), "done"
    subscribed,         \* handle_stopped is subscribed to the node's stop
    notified,           \* handle_stopped has been called
    stopping_,          \* the promise's value, "unset" before set_value
    stop_mutex,         \* the once_flag: "fresh", "active", "done"
    stop_arg,           \* the code captured by the running call_once lambda
    set_values,         \* set_value calls on the promise
    stop_calls,         \* the codes executor::stop was called with, in order
    observed,           \* what the future held when run's wait returned
    closes,             \* node close calls
    signals             \* OS signals delivered

exec_vars ==
    <<exec_pc, armed, node_pc, subscribed, notified, stopping_, stop_mutex,
      stop_arg, set_values, stop_calls, observed, closes, signals>>

vars == <<config_vars, session_vars, exec_vars>>

\* The process before main constructs the executor: the static promise
\* (line 50) and once_flag (line 277) are fresh.
ExecInit ==
    /\ exec_pc = "new"
    /\ armed = FALSE
    /\ node_pc = "none"
    /\ subscribed = FALSE
    /\ notified = FALSE
    /\ stopping_ = "unset"
    /\ stop_mutex = "fresh"
    /\ stop_arg = "none"
    /\ set_values = 0
    /\ stop_calls = <<>>
    /\ observed = "none"
    /\ closes = 0
    /\ signals = 0

\* The session as constructed (lines 53-64) over a storage, a checkpoint list
\* and a header queue that is empty or still holds an earlier session's seed.
SessionInit(chains, lists, queues) ==
    /\ chain_ \in chains
    /\ checkpoints_ \in lists
    /\ hashes_ \in queues
    /\ ExecInit
    /\ minimum_rate_ = headers_per_second
    /\ last_ = DefaultCheckpoint
    /\ stopped_ = TRUE
    /\ phase = "constructed"
    /\ start_ec = "none"
    /\ range_ec = "none"
    /\ seed = DefaultCheckpoint
    /\ connecting = 0
    /\ registered = 0
    /\ syncing = 0
    /\ protocol = <<>>
    /\ attached = 0
    /\ suspended = FALSE
    /\ handled = <<>>
    /\ connectors = 0
    /\ connects = 0
    /\ connect_failures = 0
    /\ failures = 0

\* initialize without the seed == last_ test of line 221.
initialize_always_download(hashes, chain, checkpoints, last) ==
    IF hashes # <<>>
        THEN [ok |-> FALSE, code |-> operation_failed, hashes |-> hashes,
              last |-> last, seed |-> DefaultCheckpoint, ec |-> "none"]
    ELSE LET r == get_range(chain, checkpoints, DefaultCheckpoint, last)
         IN  IF r.ec # success
                 THEN [ok |-> FALSE, code |-> r.ec, hashes |-> hashes,
                       last |-> r.stop, seed |-> r.seed, ec |-> r.ec]
             ELSE [ok |-> TRUE, code |-> "none", hashes |-> <<r.seed>>,
                   last |-> r.stop, seed |-> r.seed, ec |-> r.ec]

\* initialize without the hashes_.empty() test of line 202.
initialize_reentrant(hashes, chain, checkpoints, last) ==
    LET r == get_range(chain, checkpoints, DefaultCheckpoint, last)
    IN  IF r.ec # success
            THEN [ok |-> FALSE, code |-> r.ec, hashes |-> hashes,
                  last |-> r.stop, seed |-> r.seed, ec |-> r.ec]
        ELSE IF r.seed = r.stop
            THEN [ok |-> FALSE, code |-> success, hashes |-> hashes,
                  last |-> r.stop, seed |-> r.seed, ec |-> r.ec]
        ELSE [ok |-> TRUE, code |-> "none", hashes |-> <<r.seed>>,
              last |-> r.stop, seed |-> r.seed, ec |-> r.ec]

\* initialize reporting a get_range error but going on (no return at 218).
initialize_ignore_error(hashes, chain, checkpoints, last) ==
    IF hashes # <<>>
        THEN [ok |-> FALSE, code |-> operation_failed, hashes |-> hashes,
              last |-> last, seed |-> DefaultCheckpoint, ec |-> "none"]
    ELSE LET r == get_range(chain, checkpoints, DefaultCheckpoint, last)
         IN  IF r.ec = success /\ r.seed = r.stop
                 THEN [ok |-> FALSE, code |-> success, hashes |-> hashes,
                       last |-> r.stop, seed |-> r.seed, ec |-> r.ec]
             ELSE [ok |-> TRUE,
                   code |-> IF r.ec = success THEN "none" ELSE r.ec,
                   hashes |-> <<r.seed>>, last |-> r.stop, seed |-> r.seed,
                   ec |-> r.ec]

\* initialize going on to connect without hashes_.initialize(seed) (line 236).
initialize_unseeded(hashes, chain, checkpoints, last) ==
    IF hashes # <<>>
        THEN [ok |-> FALSE, code |-> operation_failed, hashes |-> hashes,
              last |-> last, seed |-> DefaultCheckpoint, ec |-> "none"]
    ELSE LET r == get_range(chain, checkpoints, DefaultCheckpoint, last)
         IN  IF r.ec # success
                 THEN [ok |-> FALSE, code |-> r.ec, hashes |-> hashes,
                       last |-> r.stop, seed |-> r.seed, ec |-> r.ec]
             ELSE IF r.seed = r.stop
                 THEN [ok |-> FALSE, code |-> success, hashes |-> hashes,
                       last |-> r.stop, seed |-> r.seed, ec |-> r.ec]
             ELSE [ok |-> TRUE, code |-> "none", hashes |-> hashes,
                   last |-> r.stop, seed |-> r.seed, ec |-> r.ec]

\* session_header_sync::initialize: whether to go on, the code handed to the
\* handler ("none" when it is not invoked), and the queue, stop checkpoint
\* and locals it leaves behind.
initialize(hashes, chain, checkpoints, last) ==
    IF hashes # <<>>
        THEN [ok |-> FALSE, code |-> operation_failed, hashes |-> hashes,
              last |-> last, seed |-> DefaultCheckpoint, ec |-> "none"]
    ELSE LET r == get_range(chain, checkpoints, DefaultCheckpoint, last)
         IN  IF r.ec # success
                 THEN [ok |-> FALSE, code |-> r.ec, hashes |-> hashes,
                       last |-> r.stop, seed |-> r.seed, ec |-> r.ec]
             ELSE IF r.seed = r.stop
                 THEN [ok |-> FALSE, code |-> success, hashes |-> hashes,
                       last |-> r.stop, seed |-> r.seed, ec |-> r.ec]
             ELSE [ok |-> TRUE, code |-> "none", hashes |-> <<r.seed>>,
                   last |-> r.stop, seed |-> r.seed, ec |-> r.ec]

\* new_connection logging the suspension but connecting all the same (no
\* return at line 100).
new_connection_no_return(outstanding) ==
    /\ suspended' = (suspended \/ stopped_)
    /\ connecting' = outstanding + 1
    /\ connects' = connects + 1

\* session_header_sync::new_connection, entered with `outstanding` connects
\* pending: suspends when stopped, else issues one more connect.
new_connection(outstanding) ==
    IF stopped_
        THEN /\ suspended' = TRUE
             /\ connecting' = outstanding
             /\ connects' = connects
        ELSE /\ suspended' = suspended
             /\ connecting' = outstanding + 1
             /\ connects' = connects + 1

\* session_header_sync::start: session::start completes with success (and the
\* session is no longer stopped) or with an error; handle_started is
\* dispatched with that code.
Start ==
    /\ phase = "constructed"
    /\ \E ec \in StartCodes :
        /\ start_ec' = ec
        /\ stopped_' = IF ec = success THEN FALSE ELSE stopped_
    /\ phase' = "starting"
    /\ UNCHANGED <<exec_vars, config_vars, hashes_, minimum_rate_, last_,
                   range_ec, seed, connecting, registered, syncing, protocol,
                   attached, suspended, handled, connectors, connects,
                   connect_failures, failures>>

\* session_header_sync::handle_started with a failed start.
HandleStartedFailure ==
    /\ phase = "starting"
    /\ start_ec # success
    /\ phase' = "started"
    /\ handled' = Append(handled, start_ec)
    /\ UNCHANGED <<exec_vars, config_vars, hashes_, minimum_rate_, last_,
                   stopped_, start_ec, range_ec, seed, connecting,
                   registered, syncing, protocol, attached, suspended,
                   connectors, connects, connect_failures, failures>>

\* session_header_sync::handle_started after a successful start: initialize,
\* then create_connector and new_connection.
HandleStartedSuccess ==
    /\ phase = "starting"
    /\ start_ec = success
    /\ phase' = "started"
    /\ LET i == initialize(hashes_, chain_, checkpoints_, last_)
       IN  /\ hashes_' = i.hashes
           /\ last_' = i.last
           /\ seed' = i.seed
           /\ range_ec' = i.ec
           /\ handled' = IF i.code = "none" THEN handled
                                            ELSE Append(handled, i.code)
           /\ IF i.ok
                  THEN /\ connectors' = connectors + 1
                       /\ new_connection(connecting)
                  ELSE UNCHANGED <<connectors, connecting, connects,
                                   suspended>>
    /\ UNCHANGED <<exec_vars, config_vars, minimum_rate_, stopped_, start_ec,
                   registered, syncing, protocol, attached, connect_failures,
                   failures>>

\* handle_complete going on to reconnect after a success (no return at 181).
handle_complete_no_return(ec) ==
    /\ handled' = IF ec = success THEN Append(handled, ec) ELSE handled
    /\ minimum_rate_' = back_off(minimum_rate_)
    /\ failures' = IF ec = success THEN failures ELSE failures + 1
    /\ new_connection(connecting)

\* handle_complete handing every code to the handler.
handle_complete_terminal(ec) ==
    /\ handled' = Append(handled, ec)
    /\ failures' = IF ec = success THEN failures ELSE failures + 1
    /\ UNCHANGED <<minimum_rate_, suspended, connecting, connects>>

\* handle_complete dropping the result of an attempt once the session is
\* stopped.
handle_complete_cancelled(ec) ==
    IF stopped_
        THEN /\ suspended' = TRUE
             /\ UNCHANGED <<handled, minimum_rate_, failures, connecting,
                            connects>>
    ELSE IF ec = success
        THEN /\ handled' = Append(handled, ec)
             /\ UNCHANGED <<minimum_rate_, failures, suspended, connecting,
                            connects>>
        ELSE /\ minimum_rate_' = back_off(minimum_rate_)
             /\ failures' = failures + 1
             /\ handled' = handled
             /\ new_connection(connecting)

\* session_header_sync::handle_complete(ec), entered with no connect
\* pending: success ends the sequence, an error lowers the rate floor and
\* reconnects.
handle_complete(ec) ==
    IF ec = success
        THEN /\ handled' = Append(handled, ec)
             /\ UNCHANGED <<minimum_rate_, failures, suspended, connecting,
                            connects>>
        ELSE /\ minimum_rate_' = back_off(minimum_rate_)
             /\ failures' = failures + 1
             /\ handled' = handled
             /\ new_connection(connecting)

\* handle_connect with an error, reconnecting through a connector created for
\* the retry.
HandleConnectRecreate(bound) ==
    /\ connecting > 0
    /\ connect_failures < bound
    /\ \E ec \in NetworkErrors :
        /\ connect_failures' = connect_failures + 1
        /\ connectors' = connectors + 1
        /\ new_connection(connecting - 1)
    /\ UNCHANGED <<exec_vars, config_vars, hashes_, minimum_rate_, last_,
                   stopped_, phase, start_ec, range_ec, seed, registered,
                   syncing, protocol, attached, handled, failures>>

\* handle_connect with an error: reconnect with the same connector.
HandleConnectError(bound) ==
    /\ connecting > 0
    /\ connect_failures < bound
    /\ \E ec \in NetworkErrors :
        /\ connect_failures' = connect_failures + 1
        /\ new_connection(connecting - 1)
    /\ UNCHANGED <<exec_vars, config_vars, hashes_, minimum_rate_, last_,
                   stopped_, phase, start_ec, range_ec, seed, registered,
                   syncing, protocol, attached, handled, connectors,
                   failures>>

\* handle_connect with a channel, registering it and connecting again at
\* once, as a session keeping several channels does.
HandleConnectParallel ==
    /\ connecting > 0
    /\ registered' = registered + 1
    /\ new_connection(connecting - 1)
    /\ UNCHANGED <<exec_vars, config_vars, hashes_, minimum_rate_, last_,
                   stopped_, phase, start_ec, range_ec, seed, syncing,
                   protocol, attached, handled, connectors,
                   connect_failures, failures>>

\* handle_connect with a channel: register_channel.
HandleConnectSuccess ==
    /\ connecting > 0
    /\ connecting' = connecting - 1
    /\ registered' = registered + 1
    /\ UNCHANGED <<exec_vars, config_vars, hashes_, minimum_rate_, last_,
                   stopped_, phase, start_ec, range_ec, seed, syncing,
                   protocol, attached, suspended, handled, connectors,
                   connects, connect_failures, failures>>

\* handle_channel_start with an error going straight to new_connection, as
\* handle_connect does, without handle_complete.
HandleChannelStartReconnect(bound) ==
    /\ registered > 0
    /\ failures < bound
    /\ registered' = registered - 1
    /\ \E ec \in NetworkErrors : new_connection(connecting)
    /\ UNCHANGED <<exec_vars, config_vars, hashes_, minimum_rate_, last_,
                   stopped_, phase, start_ec, range_ec, seed, syncing,
                   protocol, attached, handled, connectors,
                   connect_failures, failures>>

\* handle_channel_start with an error: handle_complete(ec).
HandleChannelStartError(bound) ==
    /\ registered > 0
    /\ failures < bound
    /\ registered' = registered - 1
    /\ \E ec \in NetworkErrors : handle_complete(ec)
    /\ UNCHANGED <<exec_vars, config_vars, hashes_, last_, stopped_, phase,
                   start_ec, range_ec, seed, syncing, protocol, attached,
                   connectors, connect_failures>>

\* handle_channel_start without error: attach_protocols hands the queue, the
\* rate floor and the stop checkpoint to a new protocol_header_sync.
HandleChannelStartSuccess ==
    /\ registered > 0
    /\ registered' = registered - 1
    /\ syncing' = syncing + 1
    /\ protocol' = <<[rate |-> minimum_rate_, stop |-> last_]>>
    /\ attached' = attached + 1
    /\ UNCHANGED <<exec_vars, config_vars, hashes_, minimum_rate_, last_,
                   stopped_, phase, start_ec, range_ec, seed, connecting,
                   suspended, handled, connectors, connects,
                   connect_failures, failures>>

\* The download protocol completes with an error.
HandleCompleteError(bound) ==
    /\ syncing > 0
    /\ failures < bound
    /\ syncing' = syncing - 1
    /\ \E ec \in NetworkErrors : handle_complete(ec)
    /\ UNCHANGED <<exec_vars, config_vars, hashes_, last_, stopped_, phase,
                   start_ec, range_ec, seed, registered, protocol, attached,
                   connectors, connect_failures>>

\* The download protocol completes with success.
HandleCompleteSuccess ==
    /\ syncing > 0
    /\ syncing' = syncing - 1
    /\ handle_complete(success)
    /\ UNCHANGED <<exec_vars, config_vars, hashes_, last_, stopped_, phase,
                   start_ec, range_ec, seed, registered, protocol, attached,
                   connectors, connect_failures>>

\* The network is stopped from outside (session::stopped() turns true).
Stop ==
    /\ ~stopped_
    /\ stopped_' = TRUE
    /\ UNCHANGED <<exec_vars, config_vars, hashes_, minimum_rate_, last_,
                   phase, start_ec, range_ec, seed, connecting, registered,
                   syncing, protocol, attached, suspended, handled,
                   connectors, connects, connect_failures, failures>>

HandleConnectFailure == HandleConnectError(MaxConnectFailures)
HandleChannelStartFailure == HandleChannelStartError(MaxFailures)
HandleCompleteFailure == HandleCompleteError(MaxFailures)

\* The header queues a session is constructed over: empty, or still holding
\* the seed of an earlier session.
Queues == {<<>>, <<DefaultCheckpoint>>}

Init == SessionInit(Chains(SessionMaxHeight),
                    CheckpointLists(SessionMaxHeight, SessionMaxCheckpoints),
                    Queues)

Next ==
    \/ Start
    \/ HandleStartedFailure
    \/ HandleStartedSuccess
    \/ HandleConnectFailure
    \/ HandleConnectSuccess
    \/ HandleChannelStartFailure
    \/ HandleChannelStartSuccess
    \/ HandleCompleteFailure
    \/ HandleCompleteSuccess
    \/ Stop

Spec == Init /\ [][Next]_vars

\* ------------------------------------------------------------- retry loop

\* A storage holding the genesis block alone, under a checkpoint at height 1:
\* the session has one header to download.
GenesisChain == [last_ok |-> TRUE, top |-> 0, gap |-> <<>>, headers |-> {0}]
GenesisCheckpoints == <<Checkpoint(<<"main", 1>>, 1)>>

RetryInit == SessionInit({GenesisChain}, {GenesisCheckpoints}, Queues)

RetryNext ==
    \/ Start
    \/ HandleStartedFailure
    \/ HandleStartedSuccess
    \/ HandleConnectError(RetryConnectFailures)
    \/ HandleConnectSuccess
    \/ HandleChannelStartError(RetryFailures)
    \/ HandleChannelStartSuccess
    \/ HandleCompleteError(RetryFailures)
    \/ HandleCompleteSuccess
    \/ Stop

RetrySpec == RetryInit /\ [][RetryNext]_vars

\* -------------------------------------------------------- range resolution

\* initialize's call of get_range (lines 210-211) on an empty queue.
ResolveRange ==
    /\ range_ec = "none"
    /\ LET r == get_range(chain_, checkpoints_, seed, last_)
       IN  /\ range_ec' = r.ec
           /\ seed' = r.seed
           /\ last_' = r.stop
    /\ UNCHANGED <<exec_vars, config_vars, hashes_, minimum_rate_, stopped_,
                   phase, start_ec, connecting, registered, syncing,
                   protocol, attached, suspended, handled, connectors,
                   connects, connect_failures, failures>>

RangeInit == SessionInit(Chains(MaxHeight),
                         CheckpointLists(MaxHeight, MaxCheckpoints), {<<>>})

RangeSpec == RangeInit /\ [][ResolveRange]_vars

\* ------------------------------------------------------- executor actions

\* SIGINT, SIGABRT and SIGTERM, the signals handle_stop is installed for.
StopSignals == {2, 6, 15}

\* Codes the node completes its start and run sequences with.
NodeCodes == {success, operation_failed, "service_stopped"}

\* Codes the node's stop subscription notifies with.
NodeStopCodes == {success, "service_stopped"}

\* The session is not part of the executor's runs.
SessionIdle ==
    SessionInit({GenesisChain}, {GenesisCheckpoints}, {<<>>})

\* stop without the once_flag: every call runs the lambda.
stop_every_call(ec) ==
    /\ stop_calls' = Append(stop_calls, ec)
    /\ stop_mutex' = "active"
    /\ stop_arg' = ec

\* executor::stop(ec): the call enters call_once; the first call to arrive
\* at the fresh flag runs the lambda (SetValue below completes it), every
\* other call returns without running it.
stop(ec) ==
    /\ stop_calls' = Append(stop_calls, ec)
    /\ IF stop_mutex = "fresh"
          THEN /\ stop_mutex' = "active"
               /\ stop_arg' = ec
          ELSE UNCHANGED <<stop_mutex, stop_arg>>

\* The call_once lambda: stopping_.set_value(ec).
SetValue ==
    /\ stop_mutex = "active"
    /\ stopping_' = stop_arg
    /\ set_values' = set_values + 1
    /\ stop_mutex' = "done"
    /\ UNCHANGED <<config_vars, session_vars, exec_pc, armed, node_pc,
                   subscribed, notified, stop_arg, stop_calls, observed,
                   closes, signals>>

\* executor::handle_stop(code): re-install the handlers, then stop(success)
\* unless the code is initialize_stop.  As a signal handler it runs on
\* whichever thread the signal is delivered to: delivered to the thread that
\* is inside the call_once lambda, its own call_once waits for that call to
\* finish, which cannot resume under the handler, and neither returns.
handle_stop(code) ==
    /\ armed' = TRUE
    /\ IF code = initialize_stop
          THEN UNCHANGED <<stop_calls, stop_mutex, stop_arg>>
          ELSE \/ stop(success)
               \/ /\ stop_mutex = "active"
                  /\ stop_calls' = Append(stop_calls, success)
                  /\ stop_mutex' = "reentered"
                  /\ stop_arg' = stop_arg

\* executor::executor: the constructor ends with handle_stop(initialize_stop).
Construct ==
    /\ exec_pc = "new"
    /\ exec_pc' = "constructed"
    /\ handle_stop(initialize_stop)
    /\ UNCHANGED <<config_vars, session_vars, node_pc, subscribed, notified,
                   stopping_, set_values, observed, closes, signals>>

\* executor::run when verify_directory fails: return false, no node.  Before
\* the node exists the main thread is the only one, so a handler is not in
\* the middle of stop while run() is being called.
RunNoDirectory ==
    /\ exec_pc = "constructed"
    /\ stop_mutex \in {"fresh", "done"}
    /\ exec_pc' = "returned"
    /\ UNCHANGED <<config_vars, session_vars, armed, node_pc, subscribed,
                   notified, stopping_, stop_mutex, stop_arg, set_values,
                   stop_calls, observed, closes, signals>>

\* executor::run: create the node, start it, and wait on the stop future.
RunStart ==
    /\ exec_pc = "constructed"
    /\ stop_mutex \in {"fresh", "done"}
    /\ exec_pc' = "waiting"
    /\ node_pc' = "starting"
    /\ UNCHANGED <<config_vars, session_vars, armed, subscribed, notified,
                   stopping_, stop_mutex, stop_arg, set_values, stop_calls,
                   observed, closes, signals>>

\* executor::run: the wait returns once the promise holds a value.
RunWake ==
    /\ exec_pc = "waiting"
    /\ stopping_ # "unset"
    /\ exec_pc' = "closing"
    /\ observed' = stopping_
    /\ UNCHANGED <<config_vars, session_vars, armed, node_pc, subscribed,
                   notified, stopping_, stop_mutex, stop_arg, set_values,
                   stop_calls, closes, signals>>

\* executor::run: node_->close(), then return true.
RunClose ==
    /\ exec_pc = "closing"
    /\ exec_pc' = "returned"
    /\ closes' = closes + 1
    /\ UNCHANGED <<config_vars, session_vars, armed, node_pc, subscribed,
                   notified, stopping_, stop_mutex, stop_arg, set_values,
                   stop_calls, observed, signals>>

\* executor::handle_started with an error: stop(ec).
HandleNodeStartFailure ==
    /\ node_pc = "starting"
    /\ node_pc' = "done"
    /\ \E ec \in NodeCodes \ {success} : stop(ec)
    /\ UNCHANGED <<config_vars, session_vars, exec_pc, armed, subscribed,
                   notified, stopping_, set_values, observed, closes,
                   signals>>

\* executor::handle_started without error: subscribe_stop, then run.
HandleNodeStarted ==
    /\ node_pc = "starting"
    /\ node_pc' = "seeded"
    /\ subscribed' = TRUE
    /\ UNCHANGED <<config_vars, session_vars, exec_pc, armed, notified,
                   stopping_, stop_mutex, stop_arg, set_values, stop_calls,
                   observed, closes, signals>>

\* executor::handle_running with an error: stop(ec).
HandleNodeRunFailure ==
    /\ node_pc = "seeded"
    /\ node_pc' = "done"
    /\ \E ec \in NodeCodes \ {success} : stop(ec)
    /\ UNCHANGED <<config_vars, session_vars, exec_pc, armed, subscribed,
                   notified, stopping_, set_values, observed, closes,
                   signals>>

\* executor::handle_running without error: log only.
HandleNodeRunning ==
    /\ node_pc = "seeded"
    /\ node_pc' = "done"
    /\ UNCHANGED <<config_vars, session_vars, exec_pc, armed, subscribed,
                   notified, stopping_, stop_mutex, stop_arg, set_values,
                   stop_calls, observed, closes, signals>>

\* executor::handle_stopped: the subscribed node stops (by itself or by
\* close) and notifies once: stop(ec).
HandleNodeStopped ==
    /\ subscribed
    /\ ~notified
    /\ notified' = TRUE
    /\ \E ec \in NodeStopCodes : stop(ec)
    /\ UNCHANGED <<config_vars, session_vars, exec_pc, armed, node_pc,
                   subscribed, stopping_, set_values, observed, closes,
                   signals>>

\* The OS delivers one of the signals to the installed handle_stop.
Signal ==
    /\ armed
    /\ signals < MaxSignals
    /\ signals' = signals + 1
    /\ \E code \in StopSignals : handle_stop(code)
    /\ UNCHANGED <<config_vars, session_vars, exec_pc, node_pc, subscribed,
                   notified, stopping_, set_values, observed, closes>>

ExecNext ==
    \/ Construct
    \/ RunNoDirectory
    \/ RunStart
    \/ RunWake
    \/ RunClose
    \/ HandleNodeStartFailure
    \/ HandleNodeStarted
    \/ HandleNodeRunFailure
    \/ HandleNodeRunning
    \/ HandleNodeStopped
    \/ Signal
    \/ SetValue

ExecSpec == SessionIdle /\ [][ExecNext]_vars

\* ------------------------------------------------------------------ claims

\* Callbacks of the session that are outstanding.
Outstanding == connecting + registered + syncing

\* get_range has run and found the storage already at its target.
AlreadySynced == range_ec = success /\ seed = last_

\* C1: whenever get_range succeeds with seed == stop, the handler is invoked
\* with success (once), no connector is created, no connect is issued and
\* the header queue is never seeded, in every state of the execution.
C1_AlreadySyncedShortCircuit ==
    AlreadySynced =>
        /\ handled = <<success>>
        /\ connectors = 0
        /\ connects = 0
        /\ Outstanding = 0
        /\ hashes_ = <<>>

\* C1 witness: the scenario of an empty checkpoint list over a storage that
\* holds the genesis block alone, after the session was stopped as well.
C1_Witness ==
    /\ AlreadySynced
    /\ checkpoints_ = <<>>
    /\ chain_.top = 0
    /\ seed = Checkpoint(HeaderHash(0), 0)
    /\ handled = <<success>>
    /\ stopped_

\* C2: when handle_started reaches initialize with a non-empty header queue
\* the handler gets operation_failed in that step and the queue and last_
\* stay as they were; no connector, connect or second handler call follows
\* in the rest of the execution (get_range has not run: range_ec is "none").
C2_NonReentrant ==
    /\ [][(phase = "starting" /\ start_ec = success /\ hashes_ # <<>>
            /\ phase' = "started")
           => /\ handled' = <<operation_failed>>
              /\ hashes_' = hashes_
              /\ last_' = last_
              /\ range_ec' = "none"]_vars
    /\ []((phase = "started" /\ start_ec = success /\ range_ec = "none")
           => /\ handled = <<operation_failed>>
              /\ hashes_ = <<DefaultCheckpoint>>
              /\ last_ = DefaultCheckpoint
              /\ connectors = 0
              /\ connects = 0
              /\ Outstanding = 0)

\* C2 witness: a session started over a non-empty queue and a storage that
\* would otherwise have needed a download.
C2_Witness ==
    /\ phase = "started"
    /\ start_ec = success
    /\ hashes_ = <<DefaultCheckpoint>>
    /\ handled = <<operation_failed>>
    /\ chain_.last_ok
    /\ first_height(chain_) \in chain_.headers
    /\ checkpoint_above(checkpoints_, last_height(chain_))

\* C3: when no channel start and no download has failed and the handler has
\* been invoked after the loop began, it was invoked exactly once, with
\* success, after exactly connect_failures + 1 connects, and nothing is
\* outstanding; before that the handler has not been invoked at all.
C3_RetryUntilConnected ==
    (connectors > 0 /\ failures = 0) =>
        /\ handled \in {<<>>, <<success>>}
        /\ handled = <<success>> =>
               /\ connects = connect_failures + 1
               /\ Outstanding = 0
        /\ connects <= connect_failures + 1

\* C3 witness: three failed connects, then a connect, a channel start and a
\* download that succeed, with no stop signaled.
C3_Witness ==
    /\ handled = <<success>>
    /\ connect_failures = 3
    /\ connects = 4
    /\ failures = 0
    /\ ~stopped_

RECURSIVE Pow(_, _)
Pow(b, n) == IF n = 0 THEN 1 ELSE b * Pow(b, n - 1)

\* The rate floor after k failures when each failure keeps the integer part
\* of three quarters of it: 10000, 7500, 5625, 4218, 3163, ...
RECURSIVE TruncatedDecay(_)
TruncatedDecay(k) ==
    IF k = 0 THEN headers_per_second
    ELSE (TruncatedDecay(k - 1) * back_off_numerator)
             \div back_off_denominator

\* C4 as stated: after k failures the rate floor is exactly
\* headers_per_second * (3/4)^k, and every failure strictly lowers it.
C4_ExactExponentialDecay ==
    /\ [](minimum_rate_ * Pow(back_off_denominator, failures)
            = headers_per_second * Pow(back_off_numerator, failures))
    /\ [][failures' = failures + 1 => minimum_rate_' < minimum_rate_]_vars

\* C4 amended: after k failures the rate floor is the k-fold truncated
\* product (each failure keeps the integer part of 0.75 times the rate); it
\* equals headers_per_second * (3/4)^k for k <= 2; a failure strictly lowers
\* a positive rate and leaves a rate of 0 at 0.
C4_TruncatedDecay ==
    /\ [](minimum_rate_ = TruncatedDecay(failures))
    /\ [](failures <= 2 =>
            minimum_rate_ * Pow(back_off_denominator, failures)
                = headers_per_second * Pow(back_off_numerator, failures))
    /\ [][failures' = failures + 1 =>
            /\ minimum_rate_ > 0 => minimum_rate_' < minimum_rate_
            /\ minimum_rate_ = 0 => minimum_rate_' = 0]_vars

\* C4 witness: the third failure in a row, the first whose product
\* (4218.75) is not an integer.
C4_Witness ==
    /\ failures = 3
    /\ minimum_rate_ = 4218
    /\ handled = <<>>

\* C5: once the connection loop has begun the handler is never given an
\* error: it is invoked at most once, with success, and then nothing is
\* outstanding and no further connect is issued.
C5_NoTerminatingFailure ==
    /\ [](connectors > 0 =>
            /\ handled \in {<<>>, <<success>>}
            /\ handled = <<success>> => Outstanding = 0)
    /\ [][(connectors > 0 /\ handled = <<success>>)
           => (connects' = connects /\ handled' = handled)]_vars

\* C5 witness: success after a failed connect, a failed channel start and a
\* failed download.
C5_Witness ==
    /\ handled = <<success>>
    /\ connect_failures >= 1
    /\ failures >= 2
    /\ attached >= 2
    /\ connects = connect_failures + failures + 1

\* C6: a new_connection that finds the session stopped issues no connect and
\* does not invoke the handler, and no later step of the session does
\* either; nothing is outstanding once the session is suspended.
C6_StopSuspendsSilently ==
    /\ [][suspended' => (connects' = connects /\ handled' = handled)]_vars
    /\ [](suspended => (stopped_ /\ Outstanding = 0 /\ handled = <<>>))

\* C6 witness: the session suspended in the middle of the retry loop.
C6_Witness ==
    /\ suspended
    /\ connects >= 2
    /\ failures >= 1
    /\ handled = <<>>

\* C7: when the storage reports a gap, no checkpoint lies above
\* last_gap + 1 and the headers at first_gap - 1 and last_gap + 1 are stored,
\* get_range succeeds with the seed at first_gap - 1 and the stop at
\* last_gap + 1, whatever the chain's top.
C7_GapPrecedence ==
    (/\ range_ec # "none"
     /\ chain_.last_ok
     /\ chain_.gap # <<>>
     /\ ~(/\ checkpoints_ # <<>>
          /\ checkpoints_[Len(checkpoints_)].height > chain_.gap[2] + 1)
     /\ {chain_.gap[1] - 1, chain_.gap[2] + 1} \subseteq chain_.headers)
    => /\ range_ec = success
       /\ seed = Checkpoint(HeaderHash(chain_.gap[1] - 1), chain_.gap[1] - 1)
       /\ last_ = Checkpoint(HeaderHash(chain_.gap[2] + 1), chain_.gap[2] + 1)

\* C7 witness: the gap [1,1] under a top at 3 with the highest checkpoint at
\* 2: the range is 0..2, not 0..3.
C7_Witness ==
    /\ range_ec = success
    /\ chain_.gap = <<1, 1>>
    /\ chain_.top = 3
    /\ checkpoints_ # <<>>
    /\ checkpoints_[Len(checkpoints_)].height = 2
    /\ seed.height = 0
    /\ last_.height = 2

\* The gap-adjusted last height: last_gap + 1, or the top without a gap.
AdjustedLast == IF chain_.gap # <<>> THEN chain_.gap[2] + 1 ELSE chain_.top

\* The checkpoint list is not empty and its highest entry lies above the
\* gap-adjusted last height.
HighestAbove ==
    /\ checkpoints_ # <<>>
    /\ checkpoints_[Len(checkpoints_)].height > AdjustedLast

\* C8 as stated: the stop is the highest checkpoint exactly when the list is
\* not empty and its highest height exceeds the gap-adjusted last height.
C8_StopIsCheckpointExactlyWhenAbove ==
    range_ec = success =>
        ((checkpoints_ # <<>> /\ last_ = checkpoints_[Len(checkpoints_)])
            <=> HighestAbove)

\* C8 amended: the stop is the highest checkpoint when that lies above the
\* gap-adjusted last height, and the stored header at that height otherwise;
\* so it equals the highest checkpoint exactly when that lies above, or is
\* the block stored at the gap-adjusted last height itself.
C8_CheckpointOverride ==
    range_ec = success =>
        /\ HighestAbove => last_ = checkpoints_[Len(checkpoints_)]
        /\ ~HighestAbove =>
               last_ = Checkpoint(HeaderHash(AdjustedLast), AdjustedLast)
        /\ (checkpoints_ # <<>> /\ last_ = checkpoints_[Len(checkpoints_)])
               <=> \/ HighestAbove
                   \/ /\ checkpoints_ # <<>>
                      /\ checkpoints_[Len(checkpoints_)]
                             = Checkpoint(HeaderHash(AdjustedLast),
                                          AdjustedLast)

\* C8 witness: a gap [1,1] under a top at 3 and two checkpoints, the higher
\* one at 3: above the adjusted bound 2 though not above the top, it is the
\* stop.
C8_Witness ==
    /\ range_ec = success
    /\ chain_.gap = <<1, 1>>
    /\ chain_.top = 3
    /\ Len(checkpoints_) = 2
    /\ checkpoints_[2].height = 3
    /\ checkpoints_[2].hash = <<"fork", 3>>
    /\ last_ = checkpoints_[2]

RangeUnreadable == ~chain_.last_ok

FirstMissing ==
    /\ chain_.last_ok
    /\ (IF chain_.gap # <<>> THEN chain_.gap[1] - 1 ELSE chain_.top)
           \notin chain_.headers

LastMissing ==
    /\ chain_.last_ok
    /\ chain_.gap # <<>>
    /\ chain_.gap[1] - 1 \in chain_.headers
    /\ ~HighestAbove
    /\ chain_.gap[2] + 1 \notin chain_.headers

\* C10: once get_range has run, a storage without a last height gave
\* operation_failed, a missing header at first_height gave not_found, and so
\* did a missing header at last_height under a gap with no checkpoint above;
\* with either code the handler has been invoked once, with that code, the
\* queue is not seeded and no connector or connect exists.
C10_RangeErrorsFatal ==
    range_ec # "none" =>
        /\ RangeUnreadable => range_ec = operation_failed
        /\ FirstMissing => range_ec = not_found
        /\ LastMissing => range_ec = not_found
        /\ range_ec # success =>
               /\ range_ec \in {operation_failed, not_found}
               /\ handled = <<range_ec>>
               /\ hashes_ = <<>>
               /\ connectors = 0
               /\ connects = 0
               /\ Outstanding = 0

\* C10 witness: a gap whose upper boundary header is missing, after the
\* session was stopped as well.
C10_Witness ==
    /\ range_ec = not_found
    /\ LastMissing
    /\ handled = <<not_found>>
    /\ stopped_

C12_SyncRangeInvariant ==
    range_ec = success =>
        /\ seed.height <= last_.height
        /\ (seed.height = last_.height) <=> (seed = last_)
        /\ (seed = last_) <=> (chain_.gap = <<>> /\ ~HighestAbove)
        /\ seed = last_ => (connectors = 0 /\ connects = 0)
        /\ connects > 0 => seed.height < last_.height

\* C12 witness: a gap [1,1] under the top 2 with no checkpoint: the range is
\* 0..2 and the session has connected for it.
C12_Witness ==
    /\ range_ec = success
    /\ chain_.gap = <<1, 1>>
    /\ checkpoints_ = <<>>
    /\ seed.height = 0
    /\ last_.height = 2
    /\ connects >= 1

\* C13: get_range is computed at most once (its result never changes once
\* set), the queue is seeded at most once and only from empty, with the
\* resolved seed; a connect is issued only with the range resolved and the
\* queue seeded; the stop checkpoint never changes once the range is
\* resolved, and every attached protocol is handed that same stop.
C13_ResolveOnce ==
    /\ [][range_ec # "none" =>
              (range_ec' = range_ec /\ seed' = seed /\ last_' = last_)]_vars
    /\ [][hashes_' # hashes_ =>
              /\ hashes_ = <<>>
              /\ range_ec = "none"
              /\ connects = 0
              /\ hashes_' = <<seed'>>]_vars
    /\ [][connects' > connects =>
              /\ range_ec' = success
              /\ hashes_' = <<seed'>>
              /\ last_' = last_ \/ connects = 0]_vars
    /\ [][attached' > attached =>
              /\ protocol' # <<>>
              /\ protocol'[1].stop = last_
              /\ protocol # <<>> => protocol'[1].stop = protocol[1].stop]_vars
    /\ [](protocol # <<>> => (range_ec = success /\ protocol[1].stop = last_))

\* C13 witness: a second protocol has been attached, after a download
\* failure and a reconnect, for the stop resolved at the start.
C13_Witness ==
    /\ range_ec = success
    /\ hashes_ = <<seed>>
    /\ attached = 2
    /\ connects >= 2
    /\ failures >= 1
    /\ protocol[1].stop = last_
    /\ last_ # DefaultCheckpoint

\* C14: the rate floor changes only in a step that records a failure in
\* handle_complete (a download failure or a channel-start failure), where it
\* becomes back_off of its value before the new_connection of that step; a
\* step that records no such failure (connect failure, connect success,
\* channel start, success completion, stop) leaves it unchanged; it never
\* increases, and each attached protocol is handed the current floor, which
\* is at most the rate handed to the protocol before it.
C14_RateFloorOrdering ==
    /\ [][minimum_rate_' <= minimum_rate_]_vars
    /\ [][failures' = failures => minimum_rate_' = minimum_rate_]_vars
    /\ [][failures' # failures =>
              /\ failures' = failures + 1
              /\ minimum_rate_' = back_off(minimum_rate_)
              /\ handled' = handled
              /\ attached' = attached]_vars
    /\ [][attached' > attached =>
              /\ protocol'[1].rate = minimum_rate_
              /\ protocol # <<>> => protocol'[1].rate <= protocol[1].rate]_vars

\* C14 witness: after two failures a protocol is attached at 5625, below the
\* 10000 the first one was attached at.
C14_Witness ==
    /\ failures = 2
    /\ attached >= 2
    /\ syncing = 1
    /\ minimum_rate_ = 5625
    /\ protocol[1].rate = 5625

\* C15: create_connector is called at most once, only by the step whose
\* initialize succeeded with a stop above the seed, before any connect or
\* failure; every connect is issued with exactly that one connector in
\* existence, and no connect failure, channel-start failure or download
\* failure creates another.
C15_ConnectorReuse ==
    /\ [](connectors <= 1)
    /\ [](connects > 0 => connectors = 1)
    /\ [](connectors = 1 =>
              (range_ec = success /\ seed # last_ /\ hashes_ = <<seed>>))
    /\ [][connectors' # connectors =>
              /\ connectors = 0
              /\ connectors' = 1
              /\ connects = 0
              /\ connect_failures = 0
              /\ failures = 0]_vars
    /\ [][connects' > connects =>
              (connectors' = 1 /\ connects' = connects + 1)]_vars
    /\ [][(connect_failures' # connect_failures \/ failures' # failures) =>
              (connectors = 1 /\ connectors' = 1)]_vars

\* C15 witness: the fifth connect of a session, after two connect failures,
\* a channel-start failure and a download failure, with one connector.
C15_Witness ==
    /\ connectors = 1
    /\ connects = 5
    /\ connecting = 1
    /\ connect_failures = 2
    /\ failures = 2
    /\ attached = 1
    /\ syncing = 0
    /\ handled = <<>>

\* C16: at most one attempt is outstanding: pending connects, registered
\* channels and attached protocols number at most one in total; a connect is
\* issued either as the first one, with nothing outstanding, or by the step
\* in which the one outstanding attempt reports a connect failure, a
\* channel-start failure or a download failure.
C16_SequentialRetry ==
    /\ [](Outstanding <= 1)
    /\ [][connects' > connects =>
              /\ connects' = connects + 1
              /\ Outstanding' = 1
              /\ connecting' = 1
              /\ \/ /\ connects = 0
                    /\ Outstanding = 0
                    /\ phase = "starting"
                 \/ /\ Outstanding = 1
                    /\ handled' = handled
                    /\ \/ (connecting = 1 /\
                           connect_failures' = connect_failures + 1)
                       \/ (registered = 1 /\ failures' = failures + 1)
                       \/ (syncing = 1 /\ failures' = failures + 1)]_vars

\* C16 witness: the third attempt, after a connect failure and a download
\* failure, has its protocol attached and is the only one outstanding.
C16_Witness ==
    /\ connects = 3
    /\ connect_failures = 1
    /\ failures = 1
    /\ attached = 2
    /\ syncing = 1
    /\ Outstanding = 1

\* A step in which handle_connect reports an error.
ConnectFailureStep == connect_failures' = connect_failures + 1

\* A step in which handle_channel_start reports an error: a registered
\* channel is gone and no protocol was attached to it.
ChannelStartFailureStep == registered' < registered /\ attached' = attached

\* What both failures lead to: new_connection with the connector of the
\* session and the handler not invoked.
RetriesWithSameConnector ==
    /\ handled' = handled
    /\ connectors' = connectors
    /\ registered' = 0
    /\ syncing' = syncing
    /\ IF stopped_
           THEN suspended' /\ connecting' = 0 /\ connects' = connects
           ELSE connecting' = 1 /\ connects' = connects + 1

\* C17 as stated: a channel-start failure and a connect failure both lead to
\* a new connection attempt with the same connector, the handler not
\* invoked, and the minimum rate as it was.
C17_SameAsConnectFailure ==
    [][(ConnectFailureStep \/ ChannelStartFailureStep) =>
           (RetriesWithSameConnector /\ minimum_rate_' = minimum_rate_)]_vars

\* C17: a channel-start failure and a connect failure both lead to a new
\* connection attempt with the same connector and the handler not invoked;
\* the connect failure leaves the minimum rate as it was, the channel-start
\* failure is a handle_complete failure and lowers it by back_off.
C17_HandshakeFailureRetries ==
    /\ [][ConnectFailureStep =>
              /\ RetriesWithSameConnector
              /\ minimum_rate_' = minimum_rate_
              /\ failures' = failures]_vars
    /\ [][ChannelStartFailureStep =>
              /\ RetriesWithSameConnector
              /\ minimum_rate_' = back_off(minimum_rate_)
              /\ failures' = failures + 1
              /\ connect_failures' = connect_failures]_vars

\* C17 witness: a connect failure and then a channel-start failure, no
\* protocol ever attached: the third connect is pending at a rate of 7500.
C17_Witness ==
    /\ connect_failures = 1
    /\ failures = 1
    /\ attached = 0
    /\ connects = 3
    /\ connecting = 1
    /\ handled = <<>>
    /\ connectors = 1
    /\ minimum_rate_ = 7500

\* C18: the step that stops the session changes nothing but the stopped
\* flag, whatever is in flight; with the session stopped a pending connect,
\* channel start or download still reports: a download then completes with
\* success, handing success to the handler, or with a failure, which lowers
\* the rate by back_off; no connect is issued while stopped, and the
\* new_connection of a failure step taken while stopped suspends instead.
C18_CooperativeCancellation ==
    /\ [][(~stopped_ /\ stopped_') =>
              /\ connecting' = connecting
              /\ registered' = registered
              /\ syncing' = syncing
              /\ handled' = handled
              /\ minimum_rate_' = minimum_rate_
              /\ suspended' = suspended
              /\ connects' = connects]_vars
    /\ [](stopped_ /\ syncing > 0 => ENABLED HandleCompleteSuccess)
    /\ [](stopped_ /\ syncing > 0 /\ failures < MaxFailures =>
              ENABLED HandleCompleteFailure)
    /\ [][(stopped_ /\ syncing' < syncing) =>
              \/ /\ handled' = Append(handled, success)
                 /\ minimum_rate_' = minimum_rate_
                 /\ suspended' = suspended
              \/ /\ handled' = handled
                 /\ failures' = failures + 1
                 /\ minimum_rate_' = back_off(minimum_rate_)
                 /\ suspended']_vars
    /\ [][stopped_ => (connects' = connects /\ connecting' <= connecting)]_vars
    /\ [][(suspended' /\ ~suspended) =>
              (stopped_ /\ connects' = connects /\ connecting' = 0)]_vars

\* C18 witness: the session was stopped while its first attempt was in
\* flight; the download then failed, the rate went to 7500 and new_connection
\* suspended without a second connect.
C18_Witness ==
    /\ stopped_
    /\ suspended
    /\ connects = 1
    /\ attached = 1
    /\ failures = 1
    /\ minimum_rate_ = 7500
    /\ Outstanding = 0
    /\ handled = <<>>

\* The executor under its scheduling: a thread inside the call_once lambda
\* goes on to set the value unless a handler holds it, the wait on the future
\* returns once the value is set, and run() goes on to close the node.
FairExecSpec ==
    /\ ExecSpec
    /\ WF_vars(SetValue)
    /\ WF_vars(RunWake)
    /\ WF_vars(RunClose)

\* C19: run() closes the node at most once, only from its wait and only with
\* the stop promise set; the constructor's handle_stop(0) installs the
\* handlers without calling stop; and once stop has been called (by a node
\* start failure, a node run failure, a node stop notification or a signal
\* with a non-zero code) while run() waits, run() eventually closes the node.
C19_ShutdownOrdering ==
    /\ [](closes <= 1)
    /\ [](closes = 1 => (stopping_ # "unset" /\ observed = stopping_))
    /\ [][closes' # closes =>
              /\ closes' = closes + 1
              /\ exec_pc = "closing"
              /\ node_pc # "none"
              /\ stopping_ # "unset"]_vars
    /\ [][(exec_pc = "new" /\ exec_pc' # "new") =>
              /\ armed'
              /\ stop_calls' = <<>>
              /\ stop_mutex' = "fresh"
              /\ stopping_' = "unset"]_vars
    /\ [][((node_pc = "starting" /\ node_pc' = "done")
               \/ (~notified /\ notified')
               \/ signals' > signals) =>
              Len(stop_calls') = Len(stop_calls) + 1]_vars
    /\ (exec_pc = "waiting" /\ stop_calls # <<>>) ~> (closes = 1)

\* C19 witness: the node's start failed and stop(operation_failed) is inside
\* call_once when a signal's handle_stop calls stop(success) on that thread:
\* run() waits on a promise that is not set.
C19_Witness ==
    /\ exec_pc = "waiting"
    /\ node_pc = "done"
    /\ stop_calls = <<operation_failed, success>>
    /\ stop_mutex = "reentered"
    /\ stopping_ = "unset"
    /\ closes = 0
    /\ ~ENABLED SetValue
    /\ ~ENABLED RunWake

\* C20: from 10000 the rate floor is positive through the first 29
\* handle_complete failures and 0 from the 30th on; once 0 it stays 0 on every
\* further failure, and a protocol attached from then on is handed a floor
\* of 0, which no peer's rate is below.
C20_RateBottomsOut ==
    /\ [](minimum_rate_ = 0 <=> failures >= 30)
    /\ [](failures = 29 => minimum_rate_ = 1)
    /\ back_off(0) = 0
    /\ [][minimum_rate_ = 0 => minimum_rate_' = 0]_vars
    /\ [][(minimum_rate_ = 0 /\ failures' = failures + 1) =>
              (minimum_rate_' = 0 /\ handled' = handled)]_vars
    /\ [][(attached' > attached /\ failures >= 30) =>
              protocol'[1].rate = 0]_vars

\* C20 witness: a failure at the floor of 0 has left it at 0 (31 failures)
\* and a protocol is attached with that floor.
C20_Witness ==
    /\ failures = 31
    /\ minimum_rate_ = 0
    /\ syncing = 1
    /\ protocol # <<>>
    /\ protocol[1].rate = 0
    /\ handled = <<>>

=============================================================================
